---- MODULE Spec2Model ----
(***************************************************************************)
(* Learning sidecar of MyOwnJarvis: the correction store, the gate         *)
(* functions, the correction pipeline and the admin review endpoint.       *)
(*                                                                         *)
(* A correction is a record with the fields of storage.Correction.  The    *)
(* store is four directories of <id>.json files.  Each background pipeline *)
(* task holds its own in-memory Correction object and saves it after each  *)
(* gate; a review request loads a fresh object from disk.  Handlers are    *)
(* split only where the code awaits a remote call.                         *)
(***************************************************************************)
EXTENDS Integers, Sequences, FiniteSets, TLC

(* ---------------------------------------------------------------------- *)
(* Bounds of the model                                                      *)
(* ---------------------------------------------------------------------- *)
MaxCorrections == 1

(* ---------------------------------------------------------------------- *)
(* Values                                                                   *)
(* ---------------------------------------------------------------------- *)
Null == "null"
NullConf == -1
Now == "ts"
MemoryId == "mem"

Ids == 1..MaxCorrections

Admins == {"dad", "mom"}
Callers == {"dad", "mom", "teen"}
SubmitUsers == {"mom"}
(* bodies of review requests: action and reason *)
ReviewBodies ==
    { [action |-> "approve", reason |-> Null],
      [action |-> "approve", reason |-> "wrong"],
      [action |-> "reject", reason |-> Null],
      [action |-> "reject", reason |-> ""],
      [action |-> "reject", reason |-> "wrong"],
      [action |-> "delete", reason |-> Null] }

Dirs == <<"pending", "approved", "rejected", "applied">>
DirSet == {Dirs[k] : k \in 1..Len(Dirs)}

(* confidences are hundredths: 80 is 0.80 *)
Gate2aConfidenceThreshold == 80
ConfLevels == {79, 80}

(* contents and keywords are sequences of characters *)
PersonalInfoKeywords == { <<"f", "i", "l", "s">> }
Contents == { <<"M", "o", "n", " ", "F", "i", "L", "S">>,
              <<"p", "a", "r", "i", "s">> }

(* what the remote LLM, the vendor API or the memory endpoint can do *)
RemoteKinds == {"timeout", "http_error", "unparseable", "json"}
Verdicts == {"pass", "reject", "maybe"}
RemoteOutcomes ==
    [kind : {"timeout", "http_error", "unparseable"}, verdict : {Null}]
      \cup [kind : {"json"}, verdict : Verdicts]
ApplyOutcomes == {"id", "no_id", "timeout", "http_error"}

VARIABLES
    disk,        \* disk[d] : the <id>.json files of directory d, id -> Correction
    tasks,       \* tasks[i] : the background pipeline task of correction i
    nextId,      \* number of corrections created so far
    reviews,     \* review requests suspended in apply_to_memory
    memAddCalls, \* memAddCalls[i] : memory-add calls made for correction i
    gate2aCalls, \* ids for which validate_gate2a posted to the LLM sidecar
    gate2bCalls, \* ids for which validate_gate2b was called
    notified,    \* notified[i] : review notifications fired for correction i
    apiKey,      \* whether the vendor API key is configured
    resp,        \* status code of the last HTTP response
    \* voice sidecar
    fallback_hierarchy, \* configured order, most restrictive profile first
    vad,                \* VoicePipeline.vad: "loaded", or Null when its init failed
    speaker_id,         \* VoicePipeline.speaker_id: "loaded" or Null
    transcriber,        \* VoicePipeline.transcriber: "loaded" or Null
    embedding_files,    \* users with an <user>.npy file in the embeddings directory
    user_embeddings,    \* SpeakerIdentifier.user_embeddings: users in the table
    loaded_from,        \* the embedding files as they were at the last load
    access_log,         \* the JSONL audit log, one record per line
    result,             \* what the last process invocation returned
    calls,              \* components called by the last process invocation
    invocations,        \* completed process invocations
    decision,           \* the last score table given to the decision logic
    \* LLM sidecar
    user_profiles,      \* settings.user_profiles: user -> role, model_preference
    collections,        \* ChromaDB: collection name -> set of entries
    nextEntry,          \* number of memory entries created so far
    classification,     \* the last classify call and what it returned
    llm_resp            \* the last memory request and its response

learningVars == <<disk, tasks, nextId, reviews, memAddCalls, gate2aCalls,
                  gate2bCalls, notified, apiKey, resp>>

voiceVars == <<fallback_hierarchy, vad, speaker_id, transcriber,
               embedding_files, user_embeddings, loaded_from, access_log,
               result, calls, invocations, decision>>

llmVars == <<user_profiles, collections, nextEntry, classification, llm_resp>>

vars == <<learningVars, voiceVars, llmVars>>

(* ---------------------------------------------------------------------- *)
(* storage.py: records                                                      *)
(* ---------------------------------------------------------------------- *)
GateResult(status, reason, confidence) ==
    [status |-> status, reason |-> reason, confidence |-> confidence,
     processed_at |-> Now]

NullGate ==
    [status |-> Null, reason |-> Null, confidence |-> NullConf,
     processed_at |-> Null]

Gate3Details(status) ==
    [status |-> status, submitted_at |-> Now, reviewed_at |-> Null,
     reviewer |-> Null, reject_reason |-> Null]

NullGate3 ==
    [status |-> Null, submitted_at |-> Null, reviewed_at |-> Null,
     reviewer |-> Null, reject_reason |-> Null]

create_correction(id, user_id, content) ==
    [id |-> id, user_id |-> user_id, content |-> content,
     source |-> "user_correction", submitted_at |-> Now,
     personal_info |-> FALSE,
     gate1 |-> NullGate, gate2a |-> NullGate, gate2b |-> NullGate,
     gate3 |-> NullGate3,
     applied_at |-> Null, final_status |-> "processing", memory_id |-> Null]

NullCorrection == [id |-> 0]

(* ---------------------------------------------------------------------- *)
(* storage.py: files                                                        *)
(* ---------------------------------------------------------------------- *)
RejectedStatuses ==
    {"rejected_gate1", "rejected_gate2a", "rejected_gate2b", "rejected_gate3"}

_get_file_path(status) ==
    IF status \in RejectedStatuses THEN "rejected"
    ELSE IF status = "approved" THEN "approved"
    ELSE IF status = "pending" THEN "pending"
    ELSE IF status = "applied" THEN "applied"
    ELSE "pending"

Exists(d, dir, id) == id \in DOMAIN d[dir]

_find_correction_file(d, id) ==
    IF Exists(d, Dirs[1], id) THEN Dirs[1]
    ELSE IF Exists(d, Dirs[2], id) THEN Dirs[2]
    ELSE IF Exists(d, Dirs[3], id) THEN Dirs[3]
    ELSE IF Exists(d, Dirs[4], id) THEN Dirs[4]
    ELSE Null

Unlink(d, dir, id) ==
    [d EXCEPT ![dir] = [j \in DOMAIN d[dir] \ {id} |-> d[dir][j]]]

WriteFile_OneFilePerDirectory(d, dir, c) ==
    [d EXCEPT ![dir] = [j \in {c.id} |-> c]]

WriteFile(d, dir, c) ==
    [d EXCEPT ![dir] = [j \in DOMAIN d[dir] \cup {c.id} |->
                            IF j = c.id THEN c ELSE d[dir][j]]]

save_correction_NoUnlink(d, c) ==
    WriteFile(d, _get_file_path(c.final_status), c)

save_correction(d, c) ==
    LET file_path == _get_file_path(c.final_status)
        old_path == _find_correction_file(d, c.id)
        d1 == IF old_path # Null /\ old_path # file_path
              THEN Unlink(d, old_path, c.id) ELSE d
    IN  WriteFile(d1, file_path, c)

load_correction(d, id) ==
    LET file_path == _find_correction_file(d, id)
    IN  IF file_path = Null THEN NullCorrection ELSE d[file_path][id]

update_gate1_ErrorAsRejected(c, status, reason) ==
    [c EXCEPT !.gate1 = GateResult(status, reason, NullConf),
              !.final_status = IF status \in {"reject", "error"}
                               THEN "rejected_gate1" ELSE @]

update_gate1(c, status, reason) ==
    [c EXCEPT !.gate1 = GateResult(status, reason, NullConf),
              !.final_status = IF status = "reject" THEN "rejected_gate1"
                               ELSE IF status = "error" THEN "gate1_error"
                               ELSE @]

update_gate2a_ErrorStatus(c, status, confidence, reason) ==
    [c EXCEPT !.gate2a = GateResult(status, reason, confidence),
              !.final_status = IF status = "reject" THEN "rejected_gate2a"
                               ELSE IF status = "error" THEN "gate2a_error"
                               ELSE @]

update_gate2a(c, status, confidence, reason) ==
    [c EXCEPT !.gate2a = GateResult(status, reason, confidence),
              !.final_status = IF status = "reject" THEN "rejected_gate2a"
                               ELSE @]

update_gate2b(c, status, reason) ==
    [c EXCEPT !.gate2b = GateResult(status, reason, NullConf),
              !.final_status = IF status = "reject" THEN "rejected_gate2b"
                               ELSE @]

update_gate3_pending(c) ==
    [c EXCEPT !.gate3 = Gate3Details("pending"),
              !.final_status = "pending"]

update_gate3_review(c, action, reviewer, reason) ==
    LET g0 == IF c.gate3 = NullGate3 THEN Gate3Details("pending") ELSE c.gate3
        g1 == [g0 EXCEPT !.status = IF action = "approve" THEN "approved"
                                    ELSE "rejected",
                         !.reviewed_at = Now,
                         !.reviewer = reviewer,
                         !.reject_reason = IF reason # Null /\ reason # ""
                                           THEN reason ELSE @]
    IN  [c EXCEPT !.gate3 = g1,
                  !.final_status = IF action = "approve" THEN "approved"
                                   ELSE "rejected_gate3"]

mark_applied_StatusNotSet(c, memory_id) ==
    [c EXCEPT !.applied_at = Now,
              !.memory_id = memory_id]

mark_applied(c, memory_id) ==
    [c EXCEPT !.applied_at = Now,
              !.memory_id = memory_id,
              !.final_status = "applied"]

(* ---------------------------------------------------------------------- *)
(* gates                                                                    *)
(* ---------------------------------------------------------------------- *)
Lower(ch) ==
    CASE ch = "M" -> "m"
      [] ch = "F" -> "f"
      [] ch = "L" -> "l"
      [] ch = "S" -> "s"
      [] OTHER -> ch

ToLower(str) == [k \in 1..Len(str) |-> Lower(str[k])]

Contains(str, sub) ==
    \E k \in 0..(Len(str) - Len(sub)) :
        \A j \in 1..Len(sub) : str[k + j] = sub[j]

is_personal_info_CaseSensitive(content) ==
    \E keyword \in PersonalInfoKeywords : Contains(content, keyword)

is_personal_info(content) ==
    \E keyword \in PersonalInfoKeywords :
        Contains(ToLower(content), ToLower(keyword))

Clamp(confidence) ==
    IF confidence < 0 THEN 0 ELSE IF confidence > 100 THEN 100 ELSE confidence

(* gate1_sanity.py, gate2a_local_factcheck.py: the prompt templates, as the *)
(* replacement fields str.format finds in them. The braces of the JSON      *)
(* example in the template are not doubled, so its first key is a field     *)
(* beside content.                                                          *)
GATE1_PROMPT == {"verdict", "content"}
GATE2A_PROMPT == {"verdict", "content"}

(* str.format: KeyError for a replacement field the keyword arguments do    *)
(* not name                                                                 *)
format(template, kwargs) ==
    IF template \subseteq kwargs THEN "prompt" ELSE "KeyError"

(* validate_gate1 from its try block on: the request and the parsing of the *)
(* reply                                                                    *)
validate_gate1(out) ==
    CASE out.kind = "timeout" ->
            [status |-> "error", reason |-> "LLM Sidecar timeout"]
      [] out.kind = "http_error" ->
            [status |-> "error", reason |-> "LLM Sidecar unreachable"]
      [] out.kind = "unparseable" ->
            [status |-> "error", reason |-> "LLM response parsing error"]
      [] OTHER ->
            IF out.verdict \notin {"pass", "reject"}
            THEN [status |-> "reject", reason |-> "Invalid LLM response"]
            ELSE [status |-> out.verdict, reason |-> "llm"]

validate_gate2a_NoShortCircuit(content, out, confidence) ==
         CASE out.kind = "timeout" ->
                [status |-> "error", confidence |-> 0,
                 reason |-> "LLM Sidecar timeout", is_personal |-> FALSE, posted |-> TRUE]
           [] out.kind = "http_error" ->
                [status |-> "error", confidence |-> 0,
                 reason |-> "LLM Sidecar unreachable", is_personal |-> FALSE, posted |-> TRUE]
           [] out.kind = "unparseable" ->
                [status |-> "error", confidence |-> 0,
                 reason |-> "LLM response parsing error",
                 is_personal |-> FALSE, posted |-> TRUE]
           [] OTHER ->
                IF out.verdict \notin {"pass", "reject"}
                THEN [status |-> "reject", confidence |-> Clamp(confidence),
                      reason |-> "Invalid LLM response", is_personal |-> FALSE, posted |-> TRUE]
                ELSE [status |-> out.verdict, confidence |-> Clamp(confidence),
                      reason |-> "llm", is_personal |-> FALSE, posted |-> TRUE]

validate_gate2a(content, out, confidence) ==
    IF is_personal_info(content)
    THEN [status |-> "pass", confidence |-> 100,
          reason |-> "Personal information - auto-approved",
          is_personal |-> TRUE, posted |-> FALSE]
    ELSE CASE out.kind = "timeout" ->
                [status |-> "error", confidence |-> 0,
                 reason |-> "LLM Sidecar timeout", is_personal |-> FALSE, posted |-> TRUE]
           [] out.kind = "http_error" ->
                [status |-> "error", confidence |-> 0,
                 reason |-> "LLM Sidecar unreachable", is_personal |-> FALSE, posted |-> TRUE]
           [] out.kind = "unparseable" ->
                [status |-> "error", confidence |-> 0,
                 reason |-> "LLM response parsing error",
                 is_personal |-> FALSE, posted |-> TRUE]
           [] OTHER ->
                IF out.verdict \notin {"pass", "reject"}
                THEN [status |-> "reject", confidence |-> Clamp(confidence),
                      reason |-> "Invalid LLM response", is_personal |-> FALSE, posted |-> TRUE]
                ELSE [status |-> out.verdict, confidence |-> Clamp(confidence),
                      reason |-> "llm", is_personal |-> FALSE, posted |-> TRUE]

validate_gate2b(api_key, out) ==
    IF ~api_key
    THEN [status |-> "pass", reason |-> "gate2b_unavailable"]
    ELSE CASE out.kind \in {"timeout", "http_error"} ->
                [status |-> "pass", reason |-> "gate2b_unavailable"]
           [] out.kind = "unparseable" ->
                [status |-> "error", reason |-> "Claude response parsing error"]
           [] OTHER ->
                IF out.verdict \notin {"pass", "reject"}
                THEN [status |-> "reject", reason |-> "Invalid Claude response"]
                ELSE [status |-> out.verdict, reason |-> "claude"]

apply_to_memory_NoIdAccepted(out) ==
    IF out \in {"id", "no_id"} THEN MemoryId ELSE Null

apply_to_memory(out) == IF out = "id" THEN MemoryId ELSE Null

(* pipeline.py: the test that decides whether Gate 2b is called *)
CallsGate2b_PersonalBranchSwapped(is_personal, confidence, t) ==
    IF is_personal THEN TRUE
    ELSE IF confidence >= t THEN FALSE
    ELSE TRUE

CallsGate2b_StrictThreshold(is_personal, confidence, t) ==
    IF is_personal THEN FALSE
    ELSE IF confidence > t THEN FALSE
    ELSE TRUE

CallsGate2b(is_personal, confidence, t) ==
    IF is_personal THEN FALSE
    ELSE IF confidence >= t THEN FALSE
    ELSE TRUE

(* ---------------------------------------------------------------------- *)
(* Initial state                                                            *)
(* ---------------------------------------------------------------------- *)
NoTask == [pc |-> "none", correction |-> NullCorrection]

(* ---------------------------------------------------------------------- *)
(* the voice and LLM sidecars before they are started: they share no state *)
(* with the learning sidecar                                                *)
(* ---------------------------------------------------------------------- *)
NoCalls ==
    [vad |-> FALSE, has_speech |-> FALSE, identify |-> FALSE,
     transcribe |-> FALSE]

NoResult == [status |-> Null]

NoDecision == [best_user |-> Null]

VoiceNotStarted ==
    /\ fallback_hierarchy = << >>
    /\ vad = Null
    /\ speaker_id = Null
    /\ transcriber = Null
    /\ embedding_files = {}
    /\ user_embeddings = {}
    /\ loaded_from = {}
    /\ access_log = << >>
    /\ result = NoResult
    /\ calls = NoCalls
    /\ invocations = 0
    /\ decision = NoDecision

LlmNotStarted ==
    /\ user_profiles = << >>
    /\ collections = << >>
    /\ nextEntry = 0
    /\ classification = [model_key |-> Null]
    /\ llm_resp = [op |-> Null]

LearningNotStarted ==
    /\ disk = [d \in DirSet |-> << >>]
    /\ tasks = [i \in Ids |-> NoTask]
    /\ nextId = 0
    /\ reviews = {}
    /\ memAddCalls = [i \in Ids |-> 0]
    /\ gate2aCalls = {}
    /\ gate2bCalls = {}
    /\ notified = [i \in Ids |-> 0]
    /\ apiKey = FALSE
    /\ resp = 0

Init ==
    /\ disk = [d \in DirSet |-> << >>]
    /\ tasks = [i \in Ids |-> NoTask]
    /\ nextId = 0
    /\ reviews = {}
    /\ memAddCalls = [i \in Ids |-> 0]
    /\ gate2aCalls = {}
    /\ gate2bCalls = {}
    /\ notified = [i \in Ids |-> 0]
    /\ apiKey \in BOOLEAN
    /\ resp = 0
    /\ VoiceNotStarted
    /\ LlmNotStarted

(* ---------------------------------------------------------------------- *)
(* main.py: POST /learning/submit                                           *)
(* ---------------------------------------------------------------------- *)
submit_correction_NoSave(user_id, content) ==
    /\ nextId < MaxCorrections
    /\ tasks' = [tasks EXCEPT ![nextId + 1] =
                    [pc |-> "gate1",
                     correction |-> create_correction(nextId + 1, user_id,
                                                      content)]]
    /\ nextId' = nextId + 1
    /\ resp' = 200
    /\ UNCHANGED <<voiceVars, llmVars, disk, reviews, memAddCalls, gate2aCalls, gate2bCalls, notified, apiKey>>

submit_correction(user_id, content) ==
    /\ nextId < MaxCorrections
    /\ LET correction == create_correction(nextId + 1, user_id, content)
       IN  /\ disk' = save_correction(disk, correction)
           /\ tasks' = [tasks EXCEPT ![nextId + 1] =
                            [pc |-> "gate1", correction |-> correction]]
    /\ nextId' = nextId + 1
    /\ resp' = 200
    /\ UNCHANGED <<voiceVars, llmVars, reviews, memAddCalls, gate2aCalls, gate2bCalls, notified, apiKey>>

(* ---------------------------------------------------------------------- *)
(* pipeline.py: Pipeline.process_correction, one action per awaited gate    *)
(* ---------------------------------------------------------------------- *)
submit_to_gate3_NoNotify(i, c) ==
    /\ disk' = save_correction(disk, update_gate3_pending(c))
    /\ tasks' = [tasks EXCEPT ![i] =
                    [pc |-> "done", correction |-> update_gate3_pending(c)]]
    /\ UNCHANGED notified

submit_to_gate3(i, c) ==
    /\ disk' = save_correction(disk, update_gate3_pending(c))
    /\ tasks' = [tasks EXCEPT ![i] =
                    [pc |-> "done", correction |-> update_gate3_pending(c)]]
    /\ notified' = [notified EXCEPT ![i] = @ + 1]

process_gate1_NoErrorStop(i, out) ==
    /\ tasks[i].pc = "gate1"
    /\ LET r == validate_gate1(out)
           c == update_gate1(tasks[i].correction, r.status, r.reason)
       IN  /\ disk' = save_correction(disk, c)
           /\ tasks' = [tasks EXCEPT ![i] =
                          [pc |-> IF r.status = "reject"
                                  THEN "done" ELSE "gate2a",
                           correction |-> c]]
    /\ UNCHANGED <<voiceVars, llmVars, nextId, reviews, memAddCalls, gate2aCalls, gate2bCalls, notified, apiKey, resp>>

process_gate1(i, out) ==
    /\ tasks[i].pc = "gate1"
    /\ LET r == validate_gate1(out)
           c == update_gate1(tasks[i].correction, r.status, r.reason)
       IN  /\ disk' = save_correction(disk, c)
           /\ tasks' = [tasks EXCEPT ![i] =
                          [pc |-> IF r.status \in {"reject", "error"}
                                  THEN "done" ELSE "gate2a",
                           correction |-> c]]
    /\ UNCHANGED <<voiceVars, llmVars, nextId, reviews, memAddCalls, gate2aCalls, gate2bCalls, notified, apiKey, resp>>

process_gate2a(i, out, confidence) ==
    /\ tasks[i].pc = "gate2a"
    /\ LET r == validate_gate2a(tasks[i].correction.content, out, confidence)
           c0 == [tasks[i].correction EXCEPT !.personal_info = r.is_personal]
           c == update_gate2a(c0, r.status, r.confidence, r.reason)
       IN  IF r.status \in {"reject", "error"}
           THEN /\ disk' = save_correction(disk, c)
                /\ tasks' = [tasks EXCEPT ![i] =
                                [pc |-> "done", correction |-> c]]
                /\ UNCHANGED <<gate2bCalls, notified>>
           ELSE IF CallsGate2b(r.is_personal, r.confidence, Gate2aConfidenceThreshold)
           THEN /\ disk' = save_correction(disk, c)
                /\ tasks' = [tasks EXCEPT ![i] =
                                [pc |-> "gate2b", correction |-> c]]
                /\ gate2bCalls' = gate2bCalls \cup {i}
                /\ UNCHANGED notified
           ELSE /\ submit_to_gate3(i, c)
                /\ UNCHANGED gate2bCalls
    /\ gate2aCalls' = IF validate_gate2a(tasks[i].correction.content, out,
                                         confidence).posted
                      THEN gate2aCalls \cup {i} ELSE gate2aCalls
    /\ UNCHANGED <<voiceVars, llmVars, nextId, reviews, memAddCalls, apiKey, resp>>

(* validate_gate1 builds its prompt before its try block: the KeyError of   *)
(* format leaves the coroutine, update_gate1 is never called and the        *)
(* background task ends. process_gate1 and process_gate2a stay as the code  *)
(* behind the formatting is written, so that the pipeline behind the gates  *)
(* is part of the model as well.                                            *)
validate_gate1_raises(i) ==
    /\ tasks[i].pc = "gate1"
    /\ format(GATE1_PROMPT, {"content"}) = "KeyError"
    /\ tasks' = [tasks EXCEPT ![i].pc = "failed"]
    /\ UNCHANGED <<voiceVars, llmVars, disk, nextId, reviews, memAddCalls, gate2aCalls, gate2bCalls, notified, apiKey, resp>>

(* validate_gate2a returns for personal information before it builds the   *)
(* prompt; for any other content format raises as in validate_gate1, before *)
(* correction.personal_info is assigned                                     *)
validate_gate2a_raises(i) ==
    /\ tasks[i].pc = "gate2a"
    /\ ~is_personal_info(tasks[i].correction.content)
    /\ format(GATE2A_PROMPT, {"content"}) = "KeyError"
    /\ tasks' = [tasks EXCEPT ![i].pc = "failed"]
    /\ UNCHANGED <<voiceVars, llmVars, disk, nextId, reviews, memAddCalls, gate2aCalls, gate2bCalls, notified, apiKey, resp>>

process_gate2b(i, out) ==
    /\ tasks[i].pc = "gate2b"
    /\ LET r == validate_gate2b(apiKey, out)
           c == update_gate2b(tasks[i].correction, r.status, r.reason)
       IN  IF r.status = "reject"
           THEN /\ disk' = save_correction(disk, c)
                /\ tasks' = [tasks EXCEPT ![i] =
                                [pc |-> "done", correction |-> c]]
                /\ UNCHANGED notified
           ELSE submit_to_gate3(i, c)
    /\ UNCHANGED <<voiceVars, llmVars, nextId, reviews, memAddCalls, gate2aCalls, gate2bCalls, apiKey, resp>>


(* ---------------------------------------------------------------------- *)
(* main.py: POST /learning/review/<id>                                      *)
(* ---------------------------------------------------------------------- *)
(* the checks that refuse a review, in the order of the code; 0 when the   *)
(* review is accepted                                                       *)
ReviewRefusal_NoPendingCheck(d, i, caller_id, action, reason) ==
    LET correction == load_correction(d, i)
    IN  IF caller_id \notin {"dad", "mom"} THEN 403
        ELSE IF correction = NullCorrection THEN 404
        ELSE IF action \notin {"approve", "reject"} THEN 400
        ELSE IF action = "reject" /\ (reason = Null \/ reason = "") THEN 400
        ELSE 0

ReviewRefusal_ApprovedReviewable(d, i, caller_id, action, reason) ==
    LET correction == load_correction(d, i)
    IN  IF caller_id \notin {"dad", "mom"} THEN 403
        ELSE IF correction = NullCorrection THEN 404
        ELSE IF correction.final_status \notin {"pending", "approved"} THEN 400
        ELSE IF action \notin {"approve", "reject"} THEN 400
        ELSE IF action = "reject" /\ (reason = Null \/ reason = "") THEN 400
        ELSE 0

ReviewRefusal_NoCallerCheck(d, i, caller_id, action, reason) ==
    LET correction == load_correction(d, i)
    IN  IF correction = NullCorrection THEN 404
        ELSE IF correction.final_status # "pending" THEN 400
        ELSE IF action \notin {"approve", "reject"} THEN 400
        ELSE IF action = "reject" /\ (reason = Null \/ reason = "") THEN 400
        ELSE 0

ReviewRefusal(d, i, caller_id, action, reason) ==
    LET correction == load_correction(d, i)
    IN  IF caller_id \notin {"dad", "mom"} THEN 403
        ELSE IF correction = NullCorrection THEN 404
        ELSE IF correction.final_status # "pending" THEN 400
        ELSE IF action \notin {"approve", "reject"} THEN 400
        ELSE IF action = "reject" /\ (reason = Null \/ reason = "") THEN 400
        ELSE 0

review_refused(i, caller_id, action, reason) ==
    LET code == ReviewRefusal(disk, i, caller_id, action, reason)
    IN  /\ code # 0
        /\ resp' = code
        /\ UNCHANGED <<voiceVars, llmVars, disk, tasks, nextId, reviews, memAddCalls, gate2aCalls, gate2bCalls,
                       notified, apiKey>>

review_reject(i, caller_id, reason) ==
    /\ ReviewRefusal(disk, i, caller_id, "reject", reason) = 0
    /\ disk' = save_correction(disk,
                   update_gate3_review(load_correction(disk, i), "reject",
                                       caller_id, reason))
    /\ resp' = 200
    /\ UNCHANGED <<voiceVars, llmVars, tasks, nextId, reviews, memAddCalls, gate2aCalls, gate2bCalls, notified, apiKey>>

review_approve_SaveAfterAwait(i, caller_id, reason) ==
    /\ ReviewRefusal(disk, i, caller_id, "approve", reason) = 0
    /\ LET c == update_gate3_review(load_correction(disk, i), "approve",
                                    caller_id, reason)
       IN  /\ disk' = disk
           /\ reviews' = reviews \cup {[correction |-> c]}
    /\ memAddCalls' = [memAddCalls EXCEPT ![i] = @ + 1]
    /\ UNCHANGED <<voiceVars, llmVars, tasks, nextId, gate2aCalls, gate2bCalls, notified, apiKey,
                   resp>>

(* approve, up to the await of apply_to_memory *)
review_approve(i, caller_id, reason) ==
    /\ ReviewRefusal(disk, i, caller_id, "approve", reason) = 0
    /\ LET c == update_gate3_review(load_correction(disk, i), "approve",
                                    caller_id, reason)
       IN  /\ disk' = save_correction(disk, c)
           /\ reviews' = reviews \cup {[correction |-> c]}
    /\ memAddCalls' = [memAddCalls EXCEPT ![i] = @ + 1]
    /\ UNCHANGED <<voiceVars, llmVars, tasks, nextId, gate2aCalls, gate2bCalls, notified, apiKey,
                   resp>>

(* approve, from the return of apply_to_memory to the response *)
review_commit(r, out) ==
    /\ r \in reviews
    /\ LET memory_id == apply_to_memory(out)
       IN  disk' = IF memory_id # Null
                   THEN save_correction(disk, mark_applied(r.correction, memory_id))
                   ELSE disk
    /\ reviews' = reviews \ {r}
    /\ resp' = 200
    /\ UNCHANGED <<voiceVars, llmVars, tasks, nextId, memAddCalls, gate2aCalls, gate2bCalls, notified, apiKey>>

(* ---------------------------------------------------------------------- *)
(* Specification                                                            *)
(* ---------------------------------------------------------------------- *)
Next ==
    \/ \E u \in SubmitUsers, content \in Contents : submit_correction(u, content)
    \/ \E i \in Ids, out \in RemoteOutcomes : process_gate1(i, out)
    \/ \E i \in Ids, out \in RemoteOutcomes, confidence \in ConfLevels :
           process_gate2a(i, out, confidence)
    \/ \E i \in Ids : validate_gate1_raises(i)
    \/ \E i \in Ids : validate_gate2a_raises(i)
    \/ \E i \in Ids, out \in RemoteOutcomes : process_gate2b(i, out)
    \/ \E i \in Ids, caller_id \in Callers, body \in ReviewBodies :
           review_refused(i, caller_id, body.action, body.reason)
    \/ \E i \in Ids, caller_id \in Callers, body \in ReviewBodies :
           body.action = "reject" /\ review_reject(i, caller_id, body.reason)
    \/ \E i \in Ids, caller_id \in Callers, body \in ReviewBodies :
           body.action = "approve" /\ review_approve(i, caller_id, body.reason)
    \/ \E r \in reviews, out \in ApplyOutcomes : review_commit(r, out)

Spec == Init /\ [][Next]_vars

(* every correction ever saved, as it is on disk *)
Created == 1..nextId
Stored(i) == load_correction(disk, i)
TypeOK ==
    /\ nextId \in 0..MaxCorrections
    /\ \A i \in Created : Stored(i) # NullCorrection /\ Stored(i).id = i

(* ---------------------------------------------------------------------- *)
(* storage.py: a process that stops inside save_correction                  *)
(* ---------------------------------------------------------------------- *)
(* the store after old_path.unlink() and before open(file_path, 'w') *)
save_correction_unlinked(d, c) ==
    LET file_path == _get_file_path(c.final_status)
        old_path == _find_correction_file(d, c.id)
    IN  IF old_path # Null /\ old_path # file_path
        THEN Unlink(d, old_path, c.id) ELSE d

(* the Correction objects that the handlers enabled in this state pass to  *)
(* save_correction                                                          *)
Gate2aSaved(c, r) ==
    update_gate2a([c EXCEPT !.personal_info = r.is_personal],
                  r.status, r.confidence, r.reason)

SavesInProgress ==
    {Gate2aSaved(tasks[q[1]].correction,
                 validate_gate2a(tasks[q[1]].correction.content, q[2], q[3])) :
        q \in {j \in Ids : tasks[j].pc = "gate2a"} \X RemoteOutcomes
                \X ConfLevels}
    \cup
    {update_gate1(tasks[i].correction, validate_gate1(out).status,
                  validate_gate1(out).reason) :
        i \in {j \in Ids : tasks[j].pc = "gate1"}, out \in RemoteOutcomes}
    \cup
    {update_gate2b(tasks[i].correction, validate_gate2b(apiKey, out).status,
                   validate_gate2b(apiKey, out).reason) :
        i \in {j \in Ids : tasks[j].pc = "gate2b"}, out \in RemoteOutcomes}
    \cup
    {update_gate3_pending(tasks[i].correction) :
        i \in {j \in Ids : tasks[j].pc = "gate2b"}}
    \cup
    {update_gate3_review(load_correction(disk, q[1]), q[3].action, q[2],
                         q[3].reason) :
        q \in {x \in Ids \X Admins \X ReviewBodies :
                 ReviewRefusal(disk, x[1], x[2], x[3].action, x[3].reason) = 0}}
    \cup
    {mark_applied(r.correction, MemoryId) : r \in reviews}

save_interrupted(c) ==
    /\ c \in SavesInProgress
    /\ disk' = save_correction_unlinked(disk, c)
    /\ tasks' = [i \in Ids |->
                    [tasks[i] EXCEPT !.pc = IF @ = "none" THEN "none"
                                            ELSE "stopped"]]
    /\ reviews' = {}
    /\ UNCHANGED <<voiceVars, llmVars, nextId, memAddCalls, gate2aCalls, gate2bCalls, notified, apiKey, resp>>

NextCrash ==
    \/ Next
    \/ \E c \in SavesInProgress : save_interrupted(c)

SpecCrash == Init /\ [][NextCrash]_vars

(* storage.py: Storage.list_pending -- the corrections read from pending/; *)
(* the order of the returned list is the order of submitted_at              *)
list_pending(d) == {d["pending"][i] : i \in DOMAIN d["pending"]}

(* ---------------------------------------------------------------------- *)
(* Properties                                                               *)
(* ---------------------------------------------------------------------- *)
StoredNext(i) == load_correction(disk', i)
InFlight(i) == \E r \in reviews : r.correction.id = i
DirsHolding(d, i) == {dir \in DirSet : Exists(d, dir, i)}

(* a step of the review handler for the given request *)
ReviewCall(i, caller_id, action, reason) ==
    \/ review_refused(i, caller_id, action, reason)
    \/ action = "reject" /\ review_reject(i, caller_id, reason)
    \/ action = "approve" /\ review_approve(i, caller_id, reason)

ReviewLeavesStateAlone ==
    /\ disk' = disk
    /\ memAddCalls' = memAddCalls
    /\ reviews' = reviews

C2_PersonalInfoNeverReachesGate2b ==
    \A i \in Created :
        (Stored(i).personal_info \/ tasks[i].correction.personal_info)
            => i \notin gate2bCalls

C2_Witness ==
    \E i \in Created :
        /\ Stored(i).personal_info
        /\ Stored(i).final_status = "pending"
        /\ i \notin gate2bCalls

(* C3: once the pipeline run has ended, gate2b is non-null iff gate2a      *)
(* passed with a confidence strictly below the threshold and the           *)
(* correction is not personal info.                                         *)
C3_Gate2bPopulatedIff ==
    \A i \in Created :
        tasks[i].pc = "done" =>
            (Stored(i).gate2b.status # Null
                <=> /\ Stored(i).gate2a.status = "pass"
                    /\ Stored(i).gate2a.confidence < Gate2aConfidenceThreshold
                    /\ ~Stored(i).personal_info)

C3_Witness ==
    \E i \in Created :
        /\ tasks[i].pc = "done"
        /\ ~Stored(i).personal_info
        /\ Stored(i).gate2a.status = "pass"
        /\ Stored(i).gate2a.confidence = Gate2aConfidenceThreshold
        /\ Stored(i).gate2b.status = Null
        /\ Stored(i).final_status = "pending"

(* C4: final_status only moves along the edges processing -> rejected_gate1,*)
(* gate1_error, rejected_gate2a, rejected_gate2b, pending; pending ->      *)
(* approved, rejected_gate3; approved -> applied.                           *)
StatusEdges ==
    ({"processing"} \X {"rejected_gate1", "gate1_error", "rejected_gate2a",
                        "rejected_gate2b", "pending"})
      \cup ({"pending"} \X {"approved", "rejected_gate3"})
      \cup {<<"approved", "applied">>}

C4_StatusMonotonic ==
    [][\A i \in Created :
          \/ StoredNext(i).final_status = Stored(i).final_status
          \/ <<Stored(i).final_status, StoredNext(i).final_status>>
                \in StatusEdges]_vars

C4_Witness ==
    \E i \in Created :
        /\ Stored(i).final_status = "applied"
        /\ resp = 400

(* C5: a review by an admin of a correction that is not pending is         *)
(* answered 400 and changes neither the store nor memory.                   *)
C5_ReviewOfNonPendingRefused ==
    [][\/ resp' = 400 /\ ReviewLeavesStateAlone
       \/ \A i \in Created :
              \/ Stored(i).final_status = "pending"
              \/ \A caller_id \in Admins, body \in ReviewBodies :
                    ~ReviewCall(i, caller_id, body.action, body.reason)]_vars

C5_Witness ==
    \E i \in Created :
        /\ Stored(i).final_status = "rejected_gate3"
        /\ resp = 400

(* C6: a review is refused with 403 for a caller that is not dad or mom,   *)
(* else with 404 for an unknown id, else with 400 for a reject without     *)
(* reason; a refused review changes nothing.                                *)
C6_ReviewRefusals ==
    [][/\ \/ resp' = 403 /\ ReviewLeavesStateAlone
          \/ \A i \in Ids, caller_id \in Callers \ Admins,
                body \in ReviewBodies :
                ~ReviewCall(i, caller_id, body.action, body.reason)
       /\ \/ resp' = 404 /\ ReviewLeavesStateAlone
          \/ \A i \in Ids :
                \/ DirsHolding(disk, i) # {}
                \/ \A caller_id \in Admins, body \in ReviewBodies :
                      ~ReviewCall(i, caller_id, body.action, body.reason)
       /\ \/ resp' = 400 /\ ReviewLeavesStateAlone
          \/ \A i \in Ids :
                \/ DirsHolding(disk, i) = {}
                \/ \A caller_id \in Admins, reason \in {Null, ""} :
                      ~ReviewCall(i, caller_id, "reject", reason)]_vars

C6_Witness ==
    \E i \in Created :
        /\ Stored(i).final_status = "pending"
        /\ resp = 403

(* C7: applied_at and memory_id are non-null exactly when final_status is  *)
(* applied, and then a memory-add call was made for the correction.         *)
C7_AppliedFieldsIff ==
    \A i \in Created :
        /\ Stored(i).applied_at # Null <=> Stored(i).final_status = "applied"
        /\ Stored(i).memory_id # Null <=> Stored(i).final_status = "applied"
        /\ Stored(i).final_status = "applied" => memAddCalls[i] >= 1

C7_Witness ==
    \E i \in Created :
        /\ Stored(i).final_status = "applied"
        /\ Stored(i).memory_id = MemoryId
        /\ Stored(i).applied_at = Now

(* C8: when the memory-add call of an approve fails, the correction ends   *)
(* at approved with gate3 approved, under approved/, memory_id and         *)
(* applied_at null.                                                         *)
C8_FailedCommitLeavesApproved ==
    [][\A r \in reviews, out \in ApplyOutcomes \ {"id"} :
          review_commit(r, out) =>
            /\ StoredNext(r.correction.id).final_status = "approved"
            /\ StoredNext(r.correction.id).gate3.status = "approved"
            /\ StoredNext(r.correction.id).memory_id = Null
            /\ StoredNext(r.correction.id).applied_at = Null
            /\ DirsHolding(disk', r.correction.id) = {"approved"}]_vars

C8_Witness ==
    \E i \in Created :
        /\ Stored(i).final_status = "approved"
        /\ ~InFlight(i)
        /\ memAddCalls[i] = 1
        /\ resp = 200

(* C9: an approve retried on a correction left at approved by a failed     *)
(* commit is accepted, not refused.                                         *)
C9_RetryAccepted ==
    [][\A i \in Created, caller_id \in Admins, reason \in {Null, "wrong"} :
          ~(/\ Stored(i).final_status = "approved"
            /\ ~InFlight(i)
            /\ review_refused(i, caller_id, "approve", reason))]_vars

(* C10: the file of a correction is in exactly one directory, the one its  *)
(* final_status names.                                                      *)
DirOfStatus(status) ==
    CASE status \in {"rejected_gate1", "rejected_gate2a", "rejected_gate2b",
                     "rejected_gate3"} -> "rejected"
      [] status = "approved" -> "approved"
      [] status = "applied" -> "applied"
      [] status \in {"pending", "processing", "gate1_error"} -> "pending"

C10_OneFileInStatusDirectory ==
    \A i \in Created :
        \E dir \in DirSet :
            /\ DirsHolding(disk, i) = {dir}
            /\ dir = DirOfStatus(disk[dir][i].final_status)

C10_Witness ==
    \E i \in Created :
        /\ DirsHolding(disk, i) = {"rejected"}
        /\ disk["rejected"][i].final_status = "rejected_gate2b"

(* C11: a previously saved correction is at every moment in exactly one of *)
(* the four directories, also when the process stops inside a save.         *)
C11_SaveIsAtomic ==
    \A i \in Created : Cardinality(DirsHolding(disk, i)) = 1

(* C12: every correction returned by list_pending has final_status         *)
(* pending.                                                                 *)
C12_ListPendingOnlyPending ==
    \A c \in list_pending(disk) : c.final_status = "pending"

(* C13: a submit persists the correction with final_status processing      *)
(* before it answers, no gate result exists for it at that point, and no   *)
(* pipeline task exists for a correction whose submit has not answered; a  *)
(* status query for a returned id finds the correction.                     *)
C13_SubmitPersistsBeforeResponse ==
    /\ \A i \in Created : Stored(i) # NullCorrection
    /\ \A i \in Created :
          tasks[i].pc = "gate1" =>
              /\ Stored(i).final_status = "processing"
              /\ Stored(i).gate1 = NullGate
    /\ \A i \in Ids \ Created : tasks[i].pc = "none"

C13_Witness ==
    \E i \in Created :
        /\ tasks[i].pc = "gate1"
        /\ resp = 200
        /\ DirsHolding(disk, i) = {"pending"}
        /\ Stored(i).final_status = "processing"

(* C14: the gates run in the order G1, G2a, (G2b), G3: a gate2a record     *)
(* exists only after G1 passed, Gate 2b is called only after G2a passed,   *)
(* and gate3 exists only if G1 and G2a passed and G2b did not reject.       *)
C14_GatesInOrder ==
    \A i \in Created :
        /\ Stored(i).gate2a.status # Null => Stored(i).gate1.status = "pass"
        /\ (Stored(i).gate2b.status # Null \/ i \in gate2bCalls)
              => Stored(i).gate2a.status = "pass"
        /\ Stored(i).gate3.status # Null
              => /\ Stored(i).gate1.status = "pass"
                 /\ Stored(i).gate2a.status = "pass"
                 /\ Stored(i).gate2b.status # "reject"
        /\ tasks[i].pc = "gate2a"
              => /\ Stored(i).gate1.status = "pass"
                 /\ Stored(i).gate2a = NullGate
        /\ tasks[i].pc = "gate2b"
              => /\ Stored(i).gate2a.status = "pass"
                 /\ Stored(i).gate2b = NullGate
                 /\ Stored(i).gate3 = NullGate3

C14_Witness ==
    \E i \in Created :
        /\ tasks[i].pc = "gate2b"
        /\ i \in gate2bCalls
        /\ Stored(i).gate1.status = "pass"
        /\ Stored(i).gate2a.status = "pass"

(* C15: a reject at G1, G2a or G2b gives rejected_gate1, rejected_gate2a   *)
(* or rejected_gate2b with the file in rejected/, a G1 error gives         *)
(* gate1_error, and then no later gate record exists and gate3 is null.     *)
C15_RejectStopsPipeline ==
    \A i \in Created :
        /\ Stored(i).gate1.status = "reject"
              => /\ Stored(i).final_status = "rejected_gate1"
                 /\ DirsHolding(disk, i) = {"rejected"}
                 /\ Stored(i).gate2a = NullGate
                 /\ Stored(i).gate2b = NullGate
                 /\ Stored(i).gate3 = NullGate3
                 /\ tasks[i].pc = "done"
        /\ Stored(i).gate1.status = "error"
              => /\ Stored(i).final_status = "gate1_error"
                 /\ Stored(i).gate2a = NullGate
                 /\ Stored(i).gate2b = NullGate
                 /\ Stored(i).gate3 = NullGate3
                 /\ tasks[i].pc = "done"
        /\ Stored(i).gate2a.status = "reject"
              => /\ Stored(i).final_status = "rejected_gate2a"
                 /\ DirsHolding(disk, i) = {"rejected"}
                 /\ Stored(i).gate2b = NullGate
                 /\ Stored(i).gate3 = NullGate3
                 /\ tasks[i].pc = "done"
        /\ Stored(i).gate2b.status = "reject"
              => /\ Stored(i).final_status = "rejected_gate2b"
                 /\ DirsHolding(disk, i) = {"rejected"}
                 /\ Stored(i).gate3 = NullGate3
                 /\ tasks[i].pc = "done"

C15_Witness ==
    \E i \in Created :
        /\ Stored(i).gate2a.status = "reject"
        /\ Stored(i).final_status = "rejected_gate2a"
        /\ DirsHolding(disk, i) = {"rejected"}
        /\ tasks[i].pc = "done"

(* C16: after a G2a error the gate2a record has status error, final_status *)
(* is still processing, Gate 2b was not called, gate3 is null and nothing  *)
(* was committed to memory.                                                 *)
C16_Gate2aErrorStops ==
    \A i \in Created :
        Stored(i).gate2a.status = "error" =>
            /\ Stored(i).final_status = "processing"
            /\ tasks[i].pc = "done"
            /\ i \notin gate2bCalls
            /\ Stored(i).gate2b = NullGate
            /\ Stored(i).gate3 = NullGate3
            /\ memAddCalls[i] = 0
            /\ Stored(i).memory_id = Null
            /\ ~InFlight(i)

C16_Witness ==
    \E i \in Created :
        /\ Stored(i).gate2a.status = "error"
        /\ Stored(i).final_status = "processing"
        /\ resp = 400

C18_PersonalInfoAutoPass ==
    \A i \in Created :
        is_personal_info(Stored(i).content) =>
            /\ i \notin gate2aCalls
            /\ Stored(i).gate2a # NullGate =>
                  /\ Stored(i).gate2a.status = "pass"
                  /\ Stored(i).gate2a.confidence = 100
                  /\ Stored(i).gate2a.reason =
                        "Personal information - auto-approved"
                  /\ Stored(i).personal_info

C18_Witness ==
    \E i \in Created :
        /\ is_personal_info(Stored(i).content)
        /\ Stored(i).gate2a.status = "pass"
        /\ Stored(i).gate2a.confidence = 100
        /\ i \notin gate2aCalls
        /\ tasks[i].pc = "done"

(* a keyword occurs in the content, letters compared without case *)
KeywordOccurs(content) ==
    \E keyword \in PersonalInfoKeywords :
        \E k \in 1..Len(content) :
            /\ k + Len(keyword) - 1 <= Len(content)
            /\ \A j \in 1..Len(keyword) :
                  Lower(content[k + j - 1]) = Lower(keyword[j])

(* C19: for every stored correction whose pipeline run has ended,          *)
(* personal_info is true iff a configured keyword occurs in the content    *)
(* (case-insensitive substring), corrections stopped at G1 included.        *)
C19_PersonalInfoIffKeyword ==
    \A i \in Created :
        tasks[i].pc = "done" =>
            (Stored(i).personal_info <=> KeywordOccurs(Stored(i).content))

(* C19 amended: personal_info is set when Gate 2a runs: a stored           *)
(* correction with a gate2a record has personal_info true iff a keyword    *)
(* occurs in its content, and one without a gate2a record (still waiting,  *)
(* or stopped at G1) has personal_info false.                               *)
C19_PersonalInfoSetAtGate2a ==
    \A i \in Created :
        Stored(i).personal_info <=>
            (Stored(i).gate2a # NullGate /\ KeywordOccurs(Stored(i).content))

C19_Witness ==
    \E i \in Created :
        /\ tasks[i].pc = "done"
        /\ Stored(i).gate2a # NullGate
        /\ Stored(i).personal_info
        /\ Contains(Stored(i).content, <<"F", "i", "L", "S">>)

(* C20: one review notification is fired for each correction that has      *)
(* reached pending, once its gate3 record is stored, and none for a        *)
(* correction whose pipeline has not submitted it to Gate 3.                *)
C20_OneNotificationPerPending ==
    \A i \in Ids :
        notified[i] = IF i \in Created /\ Stored(i).gate3 # NullGate3
                      THEN 1 ELSE 0

C20_Witness ==
    \E i \in Created :
        /\ notified[i] = 1
        /\ Stored(i).final_status = "pending"
        /\ DirsHolding(disk, i) = {"pending"}
        /\ Stored(i).gate3.status = "pending"

(* ====================================================================== *)
(* Voice sidecar                                                            *)
(* ====================================================================== *)
MaxInvocations == 1

VoiceUsers == {"child", "teen", "dad"}

DefaultHierarchy == <<"child", "teen", "dad">>

(* every order of the users *)
Hierarchies ==
    {h \in [1..Cardinality(VoiceUsers) -> VoiceUsers] :
        \A j, k \in DOMAIN h : j # k => h[j] # h[k]}

(* similarity scores, in thousandths *)
confidence_high == 750

confidence_low == 600

ScoreLevels == {599, 600, 749, 750}

(* ---------------------------------------------------------------------- *)
(* speaker_id.py                                                            *)
(* ---------------------------------------------------------------------- *)
Identification(user_id, confidence, is_fallback, fallback_reason) ==
    [user_id |-> user_id, confidence |-> confidence,
     is_fallback |-> is_fallback, fallback_reason |-> fallback_reason]

_get_most_restrictive_SkipsFirst(hierarchy, candidates) ==
    LET hits == {k \in DOMAIN hierarchy \ {1} : hierarchy[k] \in candidates}
    IN  IF hits # {}
        THEN hierarchy[CHOOSE k \in hits : \A j \in hits : k <= j]
        ELSE CHOOSE u \in candidates : TRUE

_get_most_restrictive_LeastRestrictive(hierarchy, candidates) ==
    LET hits == {k \in DOMAIN hierarchy : hierarchy[k] \in candidates}
    IN  IF hits # {}
        THEN hierarchy[CHOOSE k \in hits : \A j \in hits : k >= j]
        ELSE CHOOSE u \in candidates : TRUE

_get_most_restrictive(hierarchy, candidates) ==
    LET hits == {k \in DOMAIN hierarchy : hierarchy[k] \in candidates}
    IN  IF hits # {}
        THEN hierarchy[CHOOSE k \in hits : \A j \in hits : k <= j]
        ELSE CHOOSE u \in candidates : TRUE

_apply_decision_logic_NoReject(hierarchy, similarities, best_user, best_score) ==
    IF best_score >= confidence_high
    THEN Identification(best_user, best_score, FALSE, Null)
    ELSE IF best_score < confidence_low
    THEN Identification(best_user, best_score, FALSE, Null)
    ELSE LET candidates == {user \in DOMAIN similarities :
                               similarities[user] >= confidence_low}
         IN  IF Cardinality(candidates) = 1
             THEN Identification(CHOOSE user \in candidates : TRUE,
                                 best_score, TRUE, "single_candidate")
             ELSE Identification(_get_most_restrictive(hierarchy, candidates),
                                 best_score, TRUE, "ambiguous_candidates")

_apply_decision_logic_StrictHigh(hierarchy, similarities, best_user, best_score) ==
    IF best_score > confidence_high
    THEN Identification(best_user, best_score, FALSE, Null)
    ELSE IF best_score < confidence_low
    THEN Identification(Null, best_score, FALSE, Null)
    ELSE LET candidates == {user \in DOMAIN similarities :
                               similarities[user] >= confidence_low}
         IN  IF Cardinality(candidates) = 1
             THEN Identification(CHOOSE user \in candidates : TRUE,
                                 best_score, TRUE, "single_candidate")
             ELSE Identification(_get_most_restrictive(hierarchy, candidates),
                                 best_score, TRUE, "ambiguous_candidates")

_apply_decision_logic(hierarchy, similarities, best_user, best_score) ==
    IF best_score >= confidence_high
    THEN Identification(best_user, best_score, FALSE, Null)
    ELSE IF best_score < confidence_low
    THEN Identification(Null, best_score, FALSE, Null)
    ELSE LET candidates == {user \in DOMAIN similarities :
                               similarities[user] >= confidence_low}
         IN  IF Cardinality(candidates) = 1
             THEN Identification(CHOOSE user \in candidates : TRUE,
                                 best_score, TRUE, "single_candidate")
             ELSE Identification(_get_most_restrictive(hierarchy, candidates),
                                 best_score, TRUE, "ambiguous_candidates")

(* max(similarities, key=similarities.get): the first maximum in the order *)
(* of the dict, which follows the iteration order of a set of strings, so  *)
(* any user holding the maximum                                             *)
BestUsers(similarities) ==
    {user \in DOMAIN similarities :
        \A other \in DOMAIN similarities :
            similarities[other] <= similarities[user]}

(* encoded |-> FALSE: preprocessing or the encoder raised *)
identify(table, hierarchy, similarities, best_user, encoded) ==
    IF table = {} \/ ~encoded
    THEN Identification(Null, 0, FALSE, Null)
    ELSE _apply_decision_logic(hierarchy, similarities, best_user,
                               similarities[best_user])

(* the embeddings of the expected users that have a file *)
load_embeddings(hierarchy, files) ==
    {hierarchy[k] : k \in DOMAIN hierarchy} \cap files

(* ---------------------------------------------------------------------- *)
(* the decision logic applied to a table of scores                          *)
(* ---------------------------------------------------------------------- *)
InitDecision ==
    /\ LearningNotStarted
    /\ LlmNotStarted
    /\ fallback_hierarchy \in Hierarchies
    /\ vad = "loaded"
    /\ speaker_id = "loaded"
    /\ transcriber = "loaded"
    /\ embedding_files \in SUBSET VoiceUsers \ {{}}
    /\ user_embeddings = load_embeddings(fallback_hierarchy, embedding_files)
    /\ loaded_from = embedding_files
    /\ access_log = << >>
    /\ result = NoResult
    /\ calls = NoCalls
    /\ invocations = 0
    /\ decision = NoDecision

decide(similarities, best_user) ==
    /\ decision' = [similarities |-> similarities,
                    best_user |-> best_user,
                    outcome |-> _apply_decision_logic(
                                    fallback_hierarchy, similarities,
                                    best_user, similarities[best_user])]
    /\ UNCHANGED <<learningVars, llmVars, fallback_hierarchy, vad, speaker_id,
                   transcriber, embedding_files, user_embeddings, loaded_from,
                   access_log, result, calls, invocations>>

NextDecision ==
    \E similarities \in [user_embeddings -> ScoreLevels] :
        \E best_user \in BestUsers(similarities) :
            decide(similarities, best_user)

SpecDecision == InitDecision /\ [][NextDecision]_vars

(* ---------------------------------------------------------------------- *)
(* Properties of the decision logic                                         *)
(* ---------------------------------------------------------------------- *)
Decided == decision # NoDecision

(* the highest score of a table *)
BestScore(similarities) ==
    CHOOSE x \in {similarities[u] : u \in DOMAIN similarities} :
        \A u \in DOMAIN similarities : similarities[u] <= x

(* the users of a table that reach confidence_low *)
Candidates(similarities) ==
    {u \in DOMAIN similarities : similarities[u] >= confidence_low}

Position(hierarchy, user) == CHOOSE k \in DOMAIN hierarchy : hierarchy[k] = user

(* C21: a best score >= confidence_high gives the best-scoring user with   *)
(* fallback false, a best score < confidence_low gives no user, anything   *)
(* in between gives a fallback; equality with confidence_high identifies   *)
(* and equality with confidence_low falls back.                             *)
C21_SpeakerDecision ==
    Decided =>
        LET best == BestScore(decision.similarities)
            out  == decision.outcome
        IN  /\ out.confidence = best
            /\ best >= confidence_high =>
                  /\ out.user_id \in DOMAIN decision.similarities
                  /\ decision.similarities[out.user_id] = best
                  /\ ~out.is_fallback
            /\ best < confidence_low =>
                  /\ out.user_id = Null
                  /\ ~out.is_fallback
            /\ (confidence_low <= best /\ best < confidence_high) =>
                  /\ out.is_fallback
                  /\ out.user_id # Null

C21_Witness ==
    /\ Decided
    /\ BestScore(decision.similarities) = confidence_high
    /\ decision.outcome.user_id = decision.best_user
    /\ ~decision.outcome.is_fallback
    /\ \E u \in DOMAIN decision.similarities :
          decision.similarities[u] = confidence_low

(* C22: in the fallback band the returned user is the candidate (score >=  *)
(* confidence_low) that comes earliest in fallback_hierarchy, and the only *)
(* candidate when there is one.                                             *)
C22_FallbackMostRestrictive ==
    (Decided /\ decision.outcome.is_fallback) =>
        /\ decision.outcome.user_id \in Candidates(decision.similarities)
        /\ \A c \in Candidates(decision.similarities) :
              Position(fallback_hierarchy, decision.outcome.user_id)
                  <= Position(fallback_hierarchy, c)

C22_Witness ==
    /\ Decided
    /\ decision.outcome.is_fallback
    /\ Cardinality(Candidates(decision.similarities)) >= 2
    /\ decision.outcome.user_id # decision.best_user
    /\ fallback_hierarchy # DefaultHierarchy

(* ---------------------------------------------------------------------- *)
(* access_logger.py, pipeline.py                                            *)
(* ---------------------------------------------------------------------- *)
LogEntry(event, user_id, confidence, fallback_reason) ==
    [timestamp |-> Now, event |-> event, user_id |-> user_id,
     confidence |-> confidence, fallback_reason |-> fallback_reason]

log_identification(log, event, user_id, confidence, fallback_reason) ==
    Append(log, LogEntry(event, user_id, confidence, fallback_reason))

(* round(confidence, 2), on thousandths *)
Round2(confidence) == ((confidence + 5) \div 10) * 10

VoiceResult(status, user_id, confidence, transcript, language, fallback, fallback_reason) ==
    [status |-> status, user_id |-> user_id, confidence |-> confidence,
     transcript |-> transcript, language |-> language, fallback |-> fallback,
     fallback_reason |-> fallback_reason]

_error_result(error_msg) ==
    [status |-> "error", user_id |-> Null, confidence |-> NullConf,
     transcript |-> Null, language |-> Null, fallback |-> FALSE,
     fallback_reason |-> Null, error |-> error_msg]

(* what Transcriber.transcribe returns: the text, or ("", "unknown") when  *)
(* it raised                                                                *)
transcribe(transcribed) ==
    IF transcribed THEN [transcript |-> "text", language |-> "fr"]
    ELSE [transcript |-> "", language |-> "unknown"]

InitVoice ==
    /\ LearningNotStarted
    /\ LlmNotStarted
    /\ fallback_hierarchy = DefaultHierarchy
    /\ vad \in {"loaded", Null}
    /\ speaker_id \in {"loaded", Null}
    /\ transcriber \in {"loaded", Null}
    /\ embedding_files \in {{}, {"teen", "dad"}}
    /\ user_embeddings = IF speaker_id = Null THEN {}
                         ELSE load_embeddings(fallback_hierarchy,
                                              embedding_files)
    /\ loaded_from = embedding_files
    /\ access_log = << >>
    /\ result = NoResult
    /\ calls = NoCalls
    /\ invocations = 0
    /\ decision = NoDecision

VadStops_Never(has_speech) == FALSE

(* the VAD ran and reported no speech *)
VadStops(has_speech) == vad # Null /\ ~has_speech

process_identified_TranscribesRejected(id, transcribed, has_speech) ==
    LET t == IF transcriber = Null
             THEN [transcript |-> "", language |-> "unknown"]
             ELSE transcribe(transcribed)
        status == IF id.user_id = Null THEN "rejected"
                  ELSE IF id.is_fallback THEN "fallback" ELSE "identified"
    IN  /\ transcriber = Null => transcribed
        /\ result' = VoiceResult(status, id.user_id, Round2(id.confidence),
                                 t.transcript, t.language, id.is_fallback,
                                 id.fallback_reason)
        /\ access_log' = log_identification(access_log, status, id.user_id,
                                            id.confidence, id.fallback_reason)
        /\ calls' = [vad |-> vad # Null, has_speech |-> has_speech,
                     identify |-> TRUE, transcribe |-> transcriber # Null]

(* process, from the identification on *)
process_identified(id, transcribed, has_speech) ==
    IF id.user_id = Null
    THEN /\ result' = VoiceResult("rejected", Null, Round2(id.confidence),
                                  Null, Null, FALSE, Null)
         /\ access_log' = log_identification(access_log, "rejected", Null,
                                             id.confidence, Null)
         /\ calls' = [vad |-> vad # Null, has_speech |-> has_speech,
                      identify |-> TRUE, transcribe |-> FALSE]
    ELSE LET t == IF transcriber = Null
                  THEN [transcript |-> "", language |-> "unknown"]
                  ELSE transcribe(transcribed)
             status == IF id.is_fallback THEN "fallback" ELSE "identified"
         IN  /\ transcriber = Null => transcribed
             /\ result' = VoiceResult(status, id.user_id,
                                      Round2(id.confidence), t.transcript,
                                      t.language, id.is_fallback,
                                      id.fallback_reason)
             /\ access_log' = log_identification(access_log, status,
                                                 id.user_id, id.confidence,
                                                 id.fallback_reason)
             /\ calls' = [vad |-> vad # Null, has_speech |-> has_speech,
                          identify |-> TRUE,
                          transcribe |-> transcriber # Null]

process_NoIdentifierCheck(has_speech) ==
    /\ invocations < MaxInvocations
    /\ vad = Null => has_speech
    /\ IF VadStops(has_speech)
       THEN /\ result' = VoiceResult("no_speech", Null, NullConf, Null, Null,
                                     FALSE, Null)
            /\ access_log' = log_identification(access_log, "no_speech", Null,
                                                NullConf, Null)
            /\ calls' = [vad |-> TRUE, has_speech |-> has_speech,
                         identify |-> FALSE, transcribe |-> FALSE]
            /\ decision' = NoDecision
       ELSE \/ /\ process_identified(Identification(Null, 0, FALSE, Null),
                                     TRUE, has_speech)
               /\ decision' = NoDecision
            \/ /\ user_embeddings # {}
               /\ \E similarities \in [user_embeddings -> ScoreLevels] :
                    \E best_user \in BestUsers(similarities) :
                      \E transcribed \in BOOLEAN :
                        LET id == identify(user_embeddings, fallback_hierarchy,
                                           similarities, best_user, TRUE)
                        IN  /\ process_identified(id, transcribed, has_speech)
                            /\ decision' = [similarities |-> similarities,
                                            best_user |-> best_user,
                                            outcome |-> id]
    /\ invocations' = invocations + 1
    /\ UNCHANGED <<learningVars, llmVars, fallback_hierarchy, vad, speaker_id,
                   transcriber, embedding_files, user_embeddings, loaded_from>>

(* VoicePipeline.process; has_speech is what the VAD reports, (True, 1.0)   *)
(* when it raised                                                           *)
(* decision keeps the score table that identify computed in this           *)
(* invocation, NoDecision when it computed none                             *)
process(has_speech) ==
    /\ invocations < MaxInvocations
    /\ vad = Null => has_speech
    /\ IF VadStops(has_speech)
       THEN /\ result' = VoiceResult("no_speech", Null, NullConf, Null, Null,
                                     FALSE, Null)
            /\ access_log' = log_identification(access_log, "no_speech", Null,
                                                NullConf, Null)
            /\ calls' = [vad |-> TRUE, has_speech |-> has_speech,
                         identify |-> FALSE, transcribe |-> FALSE]
            /\ decision' = NoDecision
       ELSE IF speaker_id = Null
       THEN /\ result' = _error_result("Speaker identification unavailable")
            /\ calls' = [vad |-> vad # Null, has_speech |-> has_speech,
                         identify |-> FALSE, transcribe |-> FALSE]
            /\ decision' = NoDecision
            /\ UNCHANGED access_log
       ELSE \/ /\ process_identified(Identification(Null, 0, FALSE, Null),
                                     TRUE, has_speech)
               /\ decision' = NoDecision
            \/ /\ user_embeddings # {}
               /\ \E similarities \in [user_embeddings -> ScoreLevels] :
                    \E best_user \in BestUsers(similarities) :
                      \E transcribed \in BOOLEAN :
                        LET id == identify(user_embeddings, fallback_hierarchy,
                                           similarities, best_user, TRUE)
                        IN  /\ process_identified(id, transcribed, has_speech)
                            /\ decision' = [similarities |-> similarities,
                                            best_user |-> best_user,
                                            outcome |-> id]
    /\ invocations' = invocations + 1
    /\ UNCHANGED <<learningVars, llmVars, fallback_hierarchy, vad, speaker_id,
                   transcriber, embedding_files, user_embeddings, loaded_from>>

reload_embeddings_ClearedOnly ==
    /\ speaker_id # Null
    /\ user_embeddings' = {}
    /\ loaded_from' = embedding_files
    /\ UNCHANGED <<learningVars, llmVars, fallback_hierarchy, vad, speaker_id,
                   transcriber, embedding_files, access_log, result, calls,
                   invocations, decision>>

(* POST /voice/reload-embeddings: clear the table, then load the files;    *)
(* the handler is a coroutine without an await, as is the call of process  *)
(* in POST /voice/process, so neither runs inside the other                 *)
reload_embeddings ==
    /\ speaker_id # Null
    /\ user_embeddings' = load_embeddings(fallback_hierarchy, embedding_files)
    /\ loaded_from' = embedding_files
    /\ UNCHANGED <<learningVars, llmVars, fallback_hierarchy, vad, speaker_id,
                   transcriber, embedding_files, access_log, result, calls,
                   invocations, decision>>

(* scripts/enroll_user.py writes <user_id>.npy *)
enroll_user(user_id) ==
    /\ user_id \notin embedding_files
    /\ embedding_files' = embedding_files \cup {user_id}
    /\ UNCHANGED <<learningVars, llmVars, fallback_hierarchy, vad, speaker_id,
                   transcriber, user_embeddings, loaded_from, access_log,
                   result, calls, invocations, decision>>

NextVoice ==
    \/ \E has_speech \in BOOLEAN : process(has_speech)
    \/ reload_embeddings
    \/ \E user_id \in VoiceUsers : enroll_user(user_id)

SpecVoice == InitVoice /\ [][NextVoice]_vars

(* ---------------------------------------------------------------------- *)
(* Properties of the voice pipeline                                         *)
(* ---------------------------------------------------------------------- *)
Invoked == invocations > 0

(* C23: when the VAD reports no speech, process returns no_speech with     *)
(* user_id and transcript null and calls neither the identifier nor the    *)
(* transcriber.                                                             *)
C23_NoSpeechShortCircuit ==
    (Invoked /\ calls.vad /\ ~calls.has_speech) =>
        /\ result.status = "no_speech"
        /\ result.user_id = Null
        /\ result.transcript = Null
        /\ ~calls.identify
        /\ ~calls.transcribe

C23_Witness ==
    /\ Invoked
    /\ calls.vad
    /\ ~calls.has_speech
    /\ result.status = "no_speech"
    /\ speaker_id # Null
    /\ user_embeddings # {}

(* C24: the transcriber is called in an invocation iff the outcome is      *)
(* identified or fallback.                                                  *)
C24_TranscribedIffIdentified ==
    Invoked =>
        (calls.transcribe <=> result.status \in {"identified", "fallback"})

(* C24 amended: the transcriber is called only for an identified or        *)
(* fallback outcome, and for each of them when a transcriber was loaded; a *)
(* rejected or no_speech result has transcript null.                        *)
C24_TranscribedOnlyIfIdentified ==
    Invoked =>
        /\ calls.transcribe =>
              result.status \in {"identified", "fallback"}
        /\ (result.status \in {"identified", "fallback"}
               /\ transcriber # Null) => calls.transcribe
        /\ result.status \in {"rejected", "no_speech"} =>
              /\ ~calls.transcribe
              /\ result.transcript = Null

C24_Witness ==
    /\ Invoked
    /\ result.status = "rejected"
    /\ calls.identify
    /\ user_embeddings # {}
    /\ transcriber # Null
    /\ ~calls.transcribe

(* C25: every completed invocation of process has appended one record to  *)
(* the audit log, whatever its outcome.                                     *)
C25_OneRecordPerInvocation == Len(access_log) = invocations

VALID_USER_IDS == {"dad", "mom", "teen", "child"}

(* callers of classify: the four users and an id without a profile *)
ClassifyUsers == VALID_USER_IDS \cup {"guest"}

UserProfileConfig(role, model_preference) ==
    [role |-> role, model_preference |-> model_preference]

(* config.yaml: the profiles of the four users, any of which may force a   *)
(* model                                                                    *)
ProfileConfigs ==
    {[u \in VALID_USER_IDS |->
         UserProfileConfig(IF u \in {"dad", "mom"} THEN "admin" ELSE "user",
                           IF u = "dad" THEN dad_pref
                           ELSE IF u = "teen" THEN teen_pref ELSE Null)] :
        dad_pref \in {Null, "fast", "full"}, teen_pref \in {Null, "full"}}

DefaultProfiles ==
    [u \in VALID_USER_IDS |->
        UserProfileConfig(IF u \in {"dad", "mom"} THEN "admin" ELSE "user",
                          Null)]

(* ---------------------------------------------------------------------- *)
(* classifier.py; a message is the sequence of its words                    *)
(* ---------------------------------------------------------------------- *)
MaxFill == 31

fast_threshold_words == 15

full_threshold_words == 30

FAST_KEYWORDS == {<<"merci">>, <<"ok">>}

FULL_KEYWORDS == {<<"explique">>, <<"pros", "and", "cons">>}

Fill(n) == [k \in 1..n |-> "mot"]

Phrases ==
    {<< >>, <<"Merci">>, <<"Explique">>, <<"Merci", "explique">>,
     <<"explique", "merci">>, <<"pros", "and", "cons">>}

Messages == {phrase \o Fill(n) : phrase \in Phrases, n \in 0..MaxFill}

WordLower(word) ==
    CASE word = "Merci" -> "merci"
      [] word = "Explique" -> "explique"
      [] OTHER -> word

(* re.search(r"\b" + keyword + r"\b", text, re.IGNORECASE): the words of   *)
(* the keyword occur in a row in the text                                   *)
_keyword_match(keyword, text) ==
    \E k \in 0..(Len(text) - Len(keyword)) :
        \A j \in 1..Len(keyword) :
            WordLower(text[k + j]) = WordLower(keyword[j])

ClassificationResult(model_key, reason) ==
    [model_key |-> model_key, reason |-> reason]

classify_ComplexityFirst(profiles, user_id, message) ==
    LET word_count == Len(message)
        message_lower == [k \in 1..Len(message) |-> WordLower(message[k])]
    IN  IF user_id \in DOMAIN profiles
           /\ profiles[user_id].model_preference # Null
        THEN ClassificationResult(profiles[user_id].model_preference,
                                  "model_preference")
        ELSE IF user_id \in {"child", "teen"}
        THEN ClassificationResult("fast", "user_profile")
        ELSE IF \E kw \in FULL_KEYWORDS : _keyword_match(kw, message_lower)
        THEN ClassificationResult("full", "complexity keyword")
        ELSE IF \E kw \in FAST_KEYWORDS : _keyword_match(kw, message_lower)
        THEN ClassificationResult("fast", "conversational keyword")
        ELSE IF word_count < fast_threshold_words
        THEN ClassificationResult("fast", "message length < threshold")
        ELSE IF word_count > full_threshold_words
        THEN ClassificationResult("full", "message length > threshold")
        ELSE ClassificationResult("fast", "default")

classify(profiles, user_id, message) ==
    LET word_count == Len(message)
        message_lower == [k \in 1..Len(message) |-> WordLower(message[k])]
    IN  IF user_id \in DOMAIN profiles
           /\ profiles[user_id].model_preference # Null
        THEN ClassificationResult(profiles[user_id].model_preference,
                                  "model_preference")
        ELSE IF user_id \in {"child", "teen"}
        THEN ClassificationResult("fast", "user_profile")
        ELSE IF \E kw \in FAST_KEYWORDS : _keyword_match(kw, message_lower)
        THEN ClassificationResult("fast", "conversational keyword")
        ELSE IF \E kw \in FULL_KEYWORDS : _keyword_match(kw, message_lower)
        THEN ClassificationResult("full", "complexity keyword")
        ELSE IF word_count < fast_threshold_words
        THEN ClassificationResult("fast", "message length < threshold")
        ELSE IF word_count > full_threshold_words
        THEN ClassificationResult("full", "message length > threshold")
        ELSE ClassificationResult("fast", "default")

InitClassify ==
    /\ LearningNotStarted
    /\ VoiceNotStarted
    /\ user_profiles \in ProfileConfigs
    /\ collections = << >>
    /\ nextEntry = 0
    /\ \E user_id \in ClassifyUsers, message \in Messages :
          classification = [user_id |-> user_id, message |-> message,
                            model_key |-> Null, reason |-> Null]
    /\ llm_resp = [op |-> Null]

(* GET /classifier/explain, for the request that was received *)
classifier_explain(user_id, message) ==
    /\ classification.model_key = Null
    /\ classification.user_id = user_id
    /\ classification.message = message
    /\ classification' =
          [user_id |-> user_id, message |-> message,
           model_key |-> classify(user_profiles, user_id, message).model_key,
           reason |-> classify(user_profiles, user_id, message).reason]
    /\ UNCHANGED <<learningVars, voiceVars, user_profiles, collections,
                   nextEntry, llm_resp>>

NextClassify ==
    \E user_id \in ClassifyUsers, message \in Messages :
        classifier_explain(user_id, message)

SpecClassify == InitClassify /\ [][NextClassify]_vars

(* ---------------------------------------------------------------------- *)
(* Properties of the classifier                                             *)
(* ---------------------------------------------------------------------- *)
Classified == classification.model_key # Null

(* the word occurs in the message, letters compared without case *)
HasWord(message, word) ==
    \E k \in DOMAIN message : WordLower(message[k]) = word

Conversational(message) == HasWord(message, "merci")

Complex(message) ==
    \/ HasWord(message, "explique")
    \/ \E k \in DOMAIN message :
          /\ k + 2 <= Len(message)
          /\ <<message[k], message[k + 1], message[k + 2]>>
                = <<"pros", "and", "cons">>

ForcedPreference(user_id) ==
    IF user_id \in DOMAIN user_profiles
    THEN user_profiles[user_id].model_preference ELSE Null

(* C28: classify applies its rules in the order forced model_preference,   *)
(* teen or child, conversational phrase, complexity phrase, short, long,   *)
(* default: a message with both kinds of phrase is fast, and a message     *)
(* without phrases whose word count equals a threshold is the default fast. *)
C28_RulesFirstMatchWins ==
    Classified =>
        LET u == classification.user_id
            m == classification.message
            key == classification.model_key
        IN  IF ForcedPreference(u) # Null THEN key = ForcedPreference(u)
            ELSE IF u \in {"teen", "child"} THEN key = "fast"
            ELSE IF Conversational(m) THEN key = "fast"
            ELSE IF Complex(m) THEN key = "full"
            ELSE IF Len(m) < fast_threshold_words THEN key = "fast"
            ELSE IF Len(m) > full_threshold_words THEN key = "full"
            ELSE key = "fast" /\ classification.reason = "default"

C28_Witness ==
    /\ Classified
    /\ classification.user_id = "mom"
    /\ Conversational(classification.message)
    /\ Complex(classification.message)
    /\ Len(classification.message) > full_threshold_words
    /\ classification.model_key = "fast"

(* C29: for every message and every configuration of profiles, classify    *)
(* returns fast for teen and for child.                                     *)
C29_TeenChildAlwaysFast ==
    (Classified /\ classification.user_id \in {"teen", "child"}) =>
        classification.model_key = "fast"

(* ---------------------------------------------------------------------- *)
(* memory.py, and the memory endpoints of main.py                           *)
(* ---------------------------------------------------------------------- *)
MaxEntries == 2

SHARED_COLLECTION == "memory_shared"

_collection_name(user_id) ==
    CASE user_id = "dad" -> "memory_dad"
      [] user_id = "mom" -> "memory_mom"
      [] user_id = "teen" -> "memory_teen"
      [] user_id = "child" -> "memory_child"
      [] OTHER -> "memory_other"

(* the collections _ensure_collections creates *)
CollectionNames ==
    {_collection_name(uid) : uid \in VALID_USER_IDS} \cup {SHARED_COLLECTION}

(* user ids a request may carry: an admin, a user, the shared collection, *)
(* an unknown id                                                           *)
RequestUsers == {"dad", "teen", "shared", "guest"}

(* user ids given to ChromaMemory.add from inside the process *)
StoreUsers == {"shared", "guest"}

(* user ids of a search: the four users, and two ids that are refused *)
SearchUsers == VALID_USER_IDS \cup {"shared", "guest"}

(* caller ids of a delete: an admin, a user, an unknown id *)
DeleteCallers == {"dad", "teen", "guest"}

(* caller-supplied metadata: the keys it sets, Null for a key it leaves out *)
Metadatas ==
    {[user_id |-> Null, source |-> Null],
     [user_id |-> "dad", source |-> "forged"]}

TopKs == {1, 5}

(* relevance of an entry for the query of a search *)
Relevances == {1, 2}

EntryIds == 1..MaxEntries

(* doc_metadata = {"user_id": user_id, ..., "source": source, **metadata} *)
MemoryEntry(id, content, user_id, source, metadata) ==
    [id |-> id, content |-> content,
     user_id |-> IF metadata.user_id # Null THEN metadata.user_id
                 ELSE user_id,
     source |-> IF metadata.source # Null THEN metadata.source ELSE source,
     timestamp |-> Now]

(* ChromaMemory.add, for a user_id it accepts *)
add(cols, id, user_id, content, source, metadata) ==
    LET collection_name == IF user_id = "shared" THEN SHARED_COLLECTION
                           ELSE _collection_name(user_id)
    IN  [cols EXCEPT ![collection_name] =
            @ \cup {MemoryEntry(id, content, user_id, source, metadata)}]

(* col.query(n_results = min(top_k, count)): the selections of the best    *)
(* min(top_k, count) entries of a collection, ties in any order             *)
Query(entries, score, top_k) ==
    {chosen \in SUBSET entries :
        /\ Cardinality(chosen) =
              IF top_k < Cardinality(entries) THEN top_k
              ELSE Cardinality(entries)
        /\ \A e \in chosen : \A o \in entries \ chosen :
              score[e.id] >= score[o.id]}

search_AllCollections(cols, user_id, score, top_k) ==
    LET everything == UNION {cols[n] : n \in DOMAIN cols}
    IN  UNION {Query(found, score, top_k) :
                  found \in Query(everything, score, top_k)}

search_SharedWhenPrivateEmpty(cols, user_id, score, top_k) ==
    IF cols[_collection_name(user_id)] # {}
    THEN Query(cols[_collection_name(user_id)], score, top_k)
    ELSE Query(cols[SHARED_COLLECTION], score, top_k)

(* ChromaMemory.search: the results it may return, as a set of entries *)
search(cols, user_id, score, top_k) ==
    UNION {{results \in Query(user_res \cup shared_res, score, top_k) : TRUE} :
              user_res \in Query(cols[_collection_name(user_id)], score, top_k),
              shared_res \in Query(cols[SHARED_COLLECTION], score, top_k)}

delete_AnyCollection(cols, user_id, memory_id) ==
    IF \E n \in DOMAIN cols : \E e \in cols[n] : e.id = memory_id
    THEN [deleted |-> TRUE,
          cols |-> [n \in DOMAIN cols |-> {e \in cols[n] : e.id # memory_id}]]
    ELSE [deleted |-> FALSE, cols |-> cols]

(* ChromaMemory.delete: the user's collection first, then the shared one;  *)
(* a collection that does not exist is skipped                              *)
delete(cols, user_id, memory_id) ==
    LET collections_to_check ==
            <<_collection_name(user_id), SHARED_COLLECTION>>
        holds(k) ==
            /\ collections_to_check[k] \in DOMAIN cols
            /\ \E e \in cols[collections_to_check[k]] : e.id = memory_id
        without(k) ==
            [cols EXCEPT ![collections_to_check[k]] =
                {e \in @ : e.id # memory_id}]
    IN  IF holds(1) THEN [deleted |-> TRUE, cols |-> without(1)]
        ELSE IF holds(2) THEN [deleted |-> TRUE, cols |-> without(2)]
        ELSE [deleted |-> FALSE, cols |-> cols]

InitMemory ==
    /\ LearningNotStarted
    /\ VoiceNotStarted
    /\ user_profiles = DefaultProfiles
    /\ collections = [n \in CollectionNames |-> {}]
    /\ nextEntry = 0
    /\ classification = [model_key |-> Null]
    /\ llm_resp = [op |-> Null]

(* a call of ChromaMemory.add from inside the process *)
memory_store_add(user_id, content, source, metadata) ==
    /\ nextEntry < MaxEntries
    /\ IF user_id \notin VALID_USER_IDS /\ user_id # "shared"
       THEN /\ llm_resp' = [op |-> "store_add", user_id |-> user_id,
                            status |-> "ValueError"]
            /\ UNCHANGED <<collections, nextEntry>>
       ELSE /\ collections' = add(collections, nextEntry + 1, user_id, content,
                                  source, metadata)
            /\ nextEntry' = nextEntry + 1
            /\ llm_resp' = [op |-> "store_add", user_id |-> user_id,
                            status |-> "added", id |-> nextEntry + 1]
    /\ UNCHANGED <<learningVars, voiceVars, user_profiles, classification>>

(* POST /memory/add *)
memory_add(user_id, content, source, metadata) ==
    /\ nextEntry < MaxEntries
    /\ IF user_id \notin VALID_USER_IDS
       THEN /\ llm_resp' = [op |-> "add", user_id |-> user_id, status |-> 400]
            /\ UNCHANGED <<collections, nextEntry>>
       ELSE /\ collections' = add(collections, nextEntry + 1, user_id, content,
                                  source, metadata)
            /\ nextEntry' = nextEntry + 1
            /\ llm_resp' = [op |-> "add", user_id |-> user_id, status |-> 200,
                            id |-> nextEntry + 1]
    /\ UNCHANGED <<learningVars, voiceVars, user_profiles, classification>>

(* POST /memory/search *)
memory_search(user_id, score, top_k) ==
    /\ IF user_id \notin VALID_USER_IDS
       THEN llm_resp' = [op |-> "search", user_id |-> user_id, status |-> 400]
       ELSE \E results \in search(collections, user_id, score, top_k) :
              llm_resp' = [op |-> "search", user_id |-> user_id,
                           status |-> 200, top_k |-> top_k,
                           results |-> results]
    /\ UNCHANGED <<learningVars, voiceVars, user_profiles, collections,
                   nextEntry, classification>>

memory_delete_NoCallerCheck(user_id, memory_id, caller_id) ==
    /\ IF user_id \notin VALID_USER_IDS
       THEN /\ llm_resp' = [op |-> "delete", user_id |-> user_id,
                            memory_id |-> memory_id, caller_id |-> caller_id,
                            status |-> 400]
            /\ UNCHANGED collections
       ELSE LET d == delete(collections, user_id, memory_id)
            IN  /\ collections' = d.cols
                /\ llm_resp' = [op |-> "delete", user_id |-> user_id,
                                memory_id |-> memory_id,
                                caller_id |-> caller_id,
                                status |-> IF d.deleted THEN 200 ELSE 404]
    /\ UNCHANGED <<learningVars, voiceVars, user_profiles, nextEntry,
                   classification>>

(* DELETE /memory/<user_id>/<memory_id> *)
memory_delete(user_id, memory_id, caller_id) ==
    /\ IF \/ caller_id \notin DOMAIN user_profiles
          \/ user_profiles[caller_id].role # "admin"
       THEN /\ llm_resp' = [op |-> "delete", user_id |-> user_id,
                            memory_id |-> memory_id, caller_id |-> caller_id,
                            status |-> 403]
            /\ UNCHANGED collections
       ELSE IF user_id \notin VALID_USER_IDS
       THEN /\ llm_resp' = [op |-> "delete", user_id |-> user_id,
                            memory_id |-> memory_id, caller_id |-> caller_id,
                            status |-> 400]
            /\ UNCHANGED collections
       ELSE LET d == delete(collections, user_id, memory_id)
            IN  /\ collections' = d.cols
                /\ llm_resp' = [op |-> "delete", user_id |-> user_id,
                                memory_id |-> memory_id,
                                caller_id |-> caller_id,
                                status |-> IF d.deleted THEN 200 ELSE 404]
    /\ UNCHANGED <<learningVars, voiceVars, user_profiles, nextEntry,
                   classification>>

NextMemory ==
    \/ \E user_id \in StoreUsers, metadata \in Metadatas :
          memory_store_add(user_id, "fact", "conversation", metadata)
    \/ \E user_id \in RequestUsers, metadata \in Metadatas :
          memory_add(user_id, "fact", "conversation", metadata)
    \/ \E user_id \in SearchUsers, score \in [EntryIds -> Relevances],
          top_k \in TopKs :
          memory_search(user_id, score, top_k)
    \/ \E user_id \in RequestUsers, memory_id \in EntryIds,
          caller_id \in DeleteCallers :
          memory_delete(user_id, memory_id, caller_id)

SpecMemory == InitMemory /\ [][NextMemory]_vars

(* ---------------------------------------------------------------------- *)
(* Properties of the memory                                                 *)
(* ---------------------------------------------------------------------- *)
Searched == llm_resp.op = "search" /\ llm_resp.status = 200

(* C30: a search for user v returns entries of memory_v and memory_shared  *)
(* only, never an entry stored in the collection of another user.           *)
C30_MemoryIsolation ==
    Searched =>
        /\ llm_resp.results \subseteq
              collections[_collection_name(llm_resp.user_id)]
                  \cup collections[SHARED_COLLECTION]
        /\ \A u \in VALID_USER_IDS \ {llm_resp.user_id} :
              \A e \in collections[_collection_name(u)] :
                  \A r \in llm_resp.results : r.id # e.id

C30_Witness ==
    /\ Searched
    /\ llm_resp.results # {}
    /\ llm_resp.user_id = "teen"
    /\ collections[_collection_name("dad")] # {}
    /\ llm_resp.results \subseteq collections[_collection_name("teen")]

(* every entry of the store *)
AllEntries(cols) == UNION {cols[n] : n \in DOMAIN cols}

(* the entries a search or a delete for the user looks at *)
Visible(cols, user_id) ==
    cols[_collection_name(user_id)] \cup cols[SHARED_COLLECTION]

IdsOf(entries) == {e.id : e \in entries}

(* C31: a search by any of the four users with top_k at least the number  *)
(* of stored entries returns every entry of memory_shared.                  *)
C31_SharedVisibleToAll ==
    (Searched /\ llm_resp.top_k >= Cardinality(AllEntries(collections))) =>
        collections[SHARED_COLLECTION] \subseteq llm_resp.results

C31_Witness ==
    /\ Searched
    /\ llm_resp.user_id = "child"
    /\ llm_resp.top_k >= Cardinality(AllEntries(collections))
    /\ collections[SHARED_COLLECTION] # {}
    /\ collections[_collection_name("teen")] # {}
    /\ llm_resp.results = collections[SHARED_COLLECTION]

Deleting ==
    /\ llm_resp'.op = "delete"
    /\ llm_resp'.status \in {200, 404}

(* C32: a delete for user u succeeds iff memory_u or memory_shared held    *)
(* the id; afterwards neither holds it, so no search of u returns it and a *)
(* second delete fails; an id that is gone never comes back; a delete that *)
(* fails removes nothing.                                                   *)
C32_DeleteEffect ==
    [][/\ Deleting =>
            /\ llm_resp'.status = 200 <=>
                  llm_resp'.memory_id
                      \in IdsOf(Visible(collections, llm_resp'.user_id))
            /\ llm_resp'.memory_id
                  \notin IdsOf(Visible(collections', llm_resp'.user_id))
            /\ llm_resp'.status = 404 => collections' = collections
            /\ \A n \in DOMAIN collections :
                  {e \in collections[n] : e.id # llm_resp'.memory_id}
                      \subseteq collections'[n]
       /\ \A id \in 1..nextEntry :
            id \notin IdsOf(AllEntries(collections)) =>
                id \notin IdsOf(AllEntries(collections'))]_vars

C32_Witness ==
    /\ llm_resp.op = "delete"
    /\ llm_resp.status = 404
    /\ llm_resp.user_id = "teen"
    /\ llm_resp.caller_id = "dad"
    /\ llm_resp.memory_id \in IdsOf(collections[_collection_name("dad")])
    /\ nextEntry = 2
    /\ Cardinality(AllEntries(collections)) = 1

(* C33: every entry of memory_<u> carries user_id = u and every entry of   *)
(* memory_shared carries user_id = shared, whatever metadata its add call  *)
(* supplied.                                                                *)
C33_EntryUserIsOwner ==
    /\ \A u \in VALID_USER_IDS :
          \A e \in collections[_collection_name(u)] : e.user_id = u
    /\ \A e \in collections[SHARED_COLLECTION] : e.user_id = "shared"

(* C34: POST /memory/add stores the entry for the four users and for       *)
(* shared, and answers 400 for any other user_id.                           *)
C34_AddAcceptsShared ==
    llm_resp.op = "add" =>
        (llm_resp.status = 200
            <=> llm_resp.user_id \in VALID_USER_IDS \cup {"shared"})

IsAdmin(caller_id) ==
    /\ caller_id \in DOMAIN user_profiles
    /\ user_profiles[caller_id].role = "admin"

(* C35: a delete request removes an entry only when caller_id names an     *)
(* admin profile; for any other caller it answers 403 and every collection *)
(* stays as it was.                                                         *)
C35_DeleteNeedsAdmin ==
    [][llm_resp'.op = "delete" =>
          /\ collections' # collections => IsAdmin(llm_resp'.caller_id)
          /\ ~IsAdmin(llm_resp'.caller_id) =>
                /\ llm_resp'.status = 403
                /\ collections' = collections]_vars

C35_Witness ==
    /\ llm_resp.op = "delete"
    /\ llm_resp.status = 403
    /\ llm_resp.caller_id = "teen"
    /\ llm_resp.user_id = "teen"
    /\ llm_resp.memory_id \in IdsOf(collections[_collection_name("teen")])


(* ---------------------------------------------------------------------- *)
(* C36: validate_gate1 and validate_gate2a always return a status among   *)
(* pass, reject and error: every pipeline run that has ended has persisted *)
(* a gate1 record, and a gate2a record when gate1 passed, so no correction *)
(* whose task has ended is left in processing with gate1 null.             *)
(* ---------------------------------------------------------------------- *)
Ended(i) == tasks[i].pc \in {"done", "failed"}
C36_GatesTotal ==
    \A i \in Created :
        Ended(i) =>
            /\ Stored(i).gate1.status \in {"pass", "reject", "error"}
            /\ Stored(i).gate1.status = "pass" =>
                   Stored(i).gate2a.status \in {"pass", "reject", "error"}


(* ---------------------------------------------------------------------- *)
(* C37: under any interleaving of concurrent reviews of one pending        *)
(* correction at most one review takes effect: the memory-add call is made *)
(* at most once, at most one approval is in flight, a review that was      *)
(* recorded is never replaced, and every admin request that arrives after  *)
(* it is answered 400 and changes nothing.                                  *)
(* ---------------------------------------------------------------------- *)
Reviewed(c) == c.gate3.status \in {"approved", "rejected"}
LaterReviews ==
    { [action |-> "approve", reason |-> Null],
      [action |-> "reject", reason |-> "wrong"] }
C37_OneReviewTakesEffect ==
    [][\A i \in Created :
          /\ memAddCalls'[i] <= 1
          /\ Cardinality({r \in reviews' : r.correction.id = i}) <= 1
          /\ Reviewed(Stored(i)) =>
                /\ StoredNext(i).gate3 = Stored(i).gate3
                /\ memAddCalls'[i] = memAddCalls[i]
                /\ \/ resp' = 400 /\ ReviewLeavesStateAlone
                   \/ \A caller_id \in Admins, body \in LaterReviews :
                         ~ReviewCall(i, caller_id, body.action, body.reason)]_vars

C37_Witness ==
    \E i \in Created :
        /\ InFlight(i)
        /\ Stored(i).gate3.status = "approved"
        /\ Stored(i).final_status = "approved"
        /\ memAddCalls[i] = 1
        /\ resp = 400


(* ---------------------------------------------------------------------- *)
(* The learning sidecar started over a store that an earlier run left      *)
(* behind: Storage.__init__ only creates the four directories, the files   *)
(* in them stay. One correction of the earlier run is on disk, either      *)
(* waiting for its review or left in processing; no task of this run works *)
(* on it, and admins may review it.                                         *)
(* ---------------------------------------------------------------------- *)
StoredId == MaxCorrections + 1
AllIds == Ids \cup {StoredId}

StoredCorrections ==
    LET c == create_correction(StoredId, "mom", <<"p", "a", "r", "i", "s">>)
    IN  { c,
          update_gate3_pending(
              update_gate2a(update_gate1(c, "pass", "llm"), "pass", 80, "llm")) }

InitFrame ==
    /\ \E c \in StoredCorrections :
          disk = save_correction([d \in DirSet |-> << >>], c)
    /\ tasks = [i \in AllIds |-> NoTask]
    /\ nextId = 0
    /\ reviews = {}
    /\ memAddCalls = [i \in AllIds |-> 0]
    /\ gate2aCalls = {}
    /\ gate2bCalls = {}
    /\ notified = [i \in AllIds |-> 0]
    /\ apiKey = TRUE
    /\ resp = 0
    /\ VoiceNotStarted
    /\ LlmNotStarted

(* the requests and remote outcomes of this specification *)
FrameContents == { <<"p", "a", "r", "i", "s">> }
FrameOutcomes ==
    { [kind |-> "json", verdict |-> "pass"],
      [kind |-> "timeout", verdict |-> Null] }
FrameCallers == {"dad", "teen"}
FrameBodies ==
    { [action |-> "approve", reason |-> Null],
      [action |-> "reject", reason |-> "wrong"] }
FrameApplyOutcomes == {"id", "timeout"}

NextFrame ==
    \/ \E u \in SubmitUsers, content \in FrameContents :
           submit_correction(u, content)
    \/ \E i \in Ids, out \in FrameOutcomes : process_gate1(i, out)
    \/ \E i \in Ids, out \in FrameOutcomes, confidence \in ConfLevels :
           process_gate2a(i, out, confidence)
    \/ \E i \in Ids : validate_gate1_raises(i)
    \/ \E i \in Ids : validate_gate2a_raises(i)
    \/ \E i \in Ids, out \in FrameOutcomes : process_gate2b(i, out)
    \/ \E i \in AllIds, caller_id \in FrameCallers, body \in FrameBodies :
           review_refused(i, caller_id, body.action, body.reason)
    \/ \E i \in AllIds, caller_id \in FrameCallers, body \in FrameBodies :
           body.action = "reject" /\ review_reject(i, caller_id, body.reason)
    \/ \E i \in AllIds, caller_id \in FrameCallers, body \in FrameBodies :
           body.action = "approve" /\ review_approve(i, caller_id, body.reason)
    \/ \E r \in reviews, out \in FrameApplyOutcomes : review_commit(r, out)

SpecFrame == InitFrame /\ [][NextFrame]_vars

(* a step of a handler or of a pipeline task that works on correction i *)
StepOf(i) ==
    \/ nextId' = i /\ \E u \in SubmitUsers, content \in Contents :
                          submit_correction(u, content)
    \/ i \in Ids /\ \E out \in RemoteOutcomes : process_gate1(i, out)
    \/ i \in Ids /\ \E out \in RemoteOutcomes, confidence \in ConfLevels :
                       process_gate2a(i, out, confidence)
    \/ i \in Ids /\ (validate_gate1_raises(i) \/ validate_gate2a_raises(i))
    \/ i \in Ids /\ \E out \in RemoteOutcomes : process_gate2b(i, out)
    \/ \E caller_id \in Callers, body \in ReviewBodies :
           ReviewCall(i, caller_id, body.action, body.reason)
    \/ \E r \in reviews, out \in ApplyOutcomes :
           r.correction.id = i /\ review_commit(r, out)

(* the file of correction j, its directory and its fields stay as they are *)
FileUntouched(j) ==
    /\ DirsHolding(disk', j) = DirsHolding(disk, j)
    /\ StoredNext(j) = Stored(j)

C39_IdentificationFailsClosed ==
    Invoked =>
        /\ result.user_id # Null =>
              /\ decision # NoDecision
              /\ result.user_id \in DOMAIN decision.similarities
              /\ decision.similarities[result.user_id] >= confidence_low
        /\ (calls.identify /\ decision = NoDecision) =>
              /\ result.status = "rejected"
              /\ result.user_id = Null
              /\ result.confidence = 0
              /\ result.transcript = Null
              /\ ~calls.transcribe
              /\ access_log # << >>
              /\ access_log[Len(access_log)].event = "rejected"
              /\ access_log[Len(access_log)].user_id = Null

C39_Witness ==
    /\ Invoked
    /\ calls.identify
    /\ decision = NoDecision
    /\ user_embeddings = {}
    /\ transcriber # Null
    /\ result.status = "rejected"
    /\ Len(access_log) = 1


(* ---------------------------------------------------------------------- *)
(* C40: in the fallback band the returned user is never later in           *)
(* fallback_hierarchy, that is never less restrictive, than a user holding *)
(* the best score, for every score table whose users are all in the        *)
(* hierarchy.                                                               *)
(* ---------------------------------------------------------------------- *)
InHierarchy(hierarchy, users) ==
    users \subseteq {hierarchy[k] : k \in DOMAIN hierarchy}

C40_FallbackNotLaterThanBest ==
    (/\ Decided
     /\ decision.outcome.is_fallback
     /\ InHierarchy(fallback_hierarchy, DOMAIN decision.similarities)) =>
        \A best \in BestUsers(decision.similarities) :
            Position(fallback_hierarchy, decision.outcome.user_id)
                <= Position(fallback_hierarchy, best)

C40_Witness ==
    /\ Decided
    /\ decision.outcome.is_fallback
    /\ InHierarchy(fallback_hierarchy, DOMAIN decision.similarities)
    /\ decision.similarities[decision.best_user] = 749
    /\ decision.similarities[decision.outcome.user_id] = confidence_low
    /\ Position(fallback_hierarchy, decision.outcome.user_id)
          < Position(fallback_hierarchy, decision.best_user)

====
